---- MODULE Spec2Model ----
(***************************************************************************)
(* The terraswap router (contracts/terraswap_router/src/contract.rs):      *)
(* chain validation (assert_operations), the orchestrator                  *)
(* (execute_swap_operations), the minimum-receive assertion                *)
(* (assert_minimum_receive) and the host that delivers the router's        *)
(* self-addressed messages one at a time inside one all-or-nothing         *)
(* transaction.                                                            *)
(***************************************************************************)
EXTENDS Integers, Sequences, FiniteSets, TLC

VARIABLES
    balance,    \* chain state: balance[addr][asset], what query_pool reads
    saved,      \* balance as it was when the current transaction started
    queue,      \* messages of the current transaction not yet delivered
    txStatus,   \* "idle" | "running" | "committed" | "aborted"
    call,       \* the message (with its env) the last handler run received
    resp,       \* what that handler returned: [err, messages, reads]
    goal,       \* destination, final asset and minimum of the running chain
    vOps,       \* argument of the last direct call of assert_operations
    vRes,       \* its result ("none" before the first call)
    sEnv,       \* what the querier answers: quotes, tax, failing queries
    sCall,      \* the last simulation query: [type, amount, operations]
    sRes        \* its result: [status, err, amount, queries, amounts]

vars == <<balance, saved, queue, txStatus, call, resp, goal, vOps, vRes,
          sEnv, sCall, sRes>>

----------------------------------------------------------------------------
(* Bounds *)

MaxOps == 2      \* longest chain submitted to execute_swap_operations
MaxChain == 4    \* longest chain handed to assert_operations directly
MaxBal == 1      \* largest balance and largest minimum_receive

----------------------------------------------------------------------------
(* Option<T>: None is the empty sequence, Some(x) the one-element sequence *)

None == <<>>

Some(x) == <<x>>

IsSome(o) == o # <<>>

Unwrap(o) == o[1]

----------------------------------------------------------------------------
(* Asset model and swap operations *)

NativeToken(d) == [type |-> "NativeToken", denom |-> d]

Token(c) == [type |-> "Token", contract_addr |-> c]

NativeSwap(o, a) == [kind |-> "NativeSwap", offer_denom |-> o, ask_denom |-> a]

TerraSwap(o, a) ==
    [kind |-> "TerraSwap", offer_asset_info |-> o, ask_asset_info |-> a]

Loop(o, a) == [kind |-> "Loop", offer_asset_info |-> o, ask_asset_info |-> a]

Astroport(o, a) ==
    [kind |-> "Astroport", offer_asset_info |-> o, ask_asset_info |-> a]

\* Display of AssetInfo: the denom of a native token, the address of a token
to_string(asset) ==
    IF asset.type = "NativeToken" THEN asset.denom ELSE asset.contract_addr

\* every operation over the given denoms and contract addresses
Operations(denoms, contracts) ==
    LET infos == {NativeToken(d) : d \in denoms} \cup {Token(c) : c \in contracts}
    IN  {NativeSwap(o, a) : o \in denoms, a \in denoms}
        \cup {TerraSwap(o, a) : o \in infos, a \in infos}
        \cup {Loop(o, a) : o \in infos, a \in infos}
        \cup {Astroport(o, a) : o \in infos, a \in infos}

\* every chain of at most n operations drawn from ops
Chains(ops, n) == UNION {[1..k -> ops] : k \in 0..n}

----------------------------------------------------------------------------
(* Results: Ok is <<"ok">>, Err(StdError::generic_err(msg)) is <<msg, ...>> *)

OK == <<"ok">>

ErrEmpty == <<"must provide operations">>

ErrMultipleOutputs == <<"invalid operations; multiple output token">>

ErrExpired == <<"Expired deadline">>

ErrUnderflow == <<"Cannot Sub">>

ErrAssertion(minium_receive, swap_amount) ==
    <<"assertion failed; minimum receive amount: {}, swap amount: {}",
      minium_receive, swap_amount>>

NotCalled == <<"none">>

----------------------------------------------------------------------------
(* assert_operations *)

\* the (offer_asset, ask_asset) pair the loop extracts from one operation
OfferAsk(operation) ==
    IF operation.kind = "NativeSwap"
    THEN [offer |-> NativeToken(operation.offer_denom),
          ask   |-> NativeToken(operation.ask_denom)]
    ELSE [offer |-> operation.offer_asset_info,
          ask   |-> operation.ask_asset_info]

\* HashMap::remove
MapRemove(m, k) == [x \in (DOMAIN m) \ {k} |-> m[x]]

\* HashMap::insert
MapInsert(m, k, v) == [x \in (DOMAIN m) \cup {k} |-> IF x = k THEN v ELSE m[x]]

LoopBody_no_remove(m, operation) ==
    MapInsert(m, to_string(OfferAsk(operation).ask), TRUE)

LoopBody_insert_first(m, operation) ==
    LET pair == OfferAsk(operation)
    IN  MapRemove(MapInsert(m, to_string(pair.ask), TRUE), to_string(pair.offer))

\* one iteration of the loop: remove the offer asset, insert the ask asset
LoopBody(m, operation) ==
    LET pair == OfferAsk(operation)
    IN  MapInsert(MapRemove(m, to_string(pair.offer)), to_string(pair.ask), TRUE)

RECURSIVE AskAssetMapFrom(_, _, _)
AskAssetMapFrom(operations, i, m) ==
    IF i > Len(operations) THEN m
    ELSE AskAssetMapFrom(operations, i + 1, LoopBody(m, operations[i]))

\* ask_asset_map after the loop over all operations
ask_asset_map(operations) == AskAssetMapFrom(operations, 1, <<>>)

assert_operations_more_than_one(operations) ==
    IF Cardinality(DOMAIN ask_asset_map(operations)) > 1
    THEN ErrMultipleOutputs
    ELSE OK

assert_operations_adjacent(operations) ==
    IF \/ Len(operations) = 0
       \/ \E i \in 2..Len(operations) :
             OfferAsk(operations[i]).offer # OfferAsk(operations[i - 1]).ask
    THEN ErrMultipleOutputs
    ELSE OK

assert_operations(operations) ==
    IF Cardinality(DOMAIN ask_asset_map(operations)) # 1
    THEN ErrMultipleOutputs
    ELSE OK

----------------------------------------------------------------------------
(* The world the router runs in *)

Denoms == {"uluna"}

Contracts == {"asset0001"}

AssetInfos == {NativeToken(d) : d \in Denoms} \cup {Token(c) : c \in Contracts}

SwapOperations == Operations(Denoms, Contracts)

Addrs == {"addr0000", "addr0001"}

\* env.contract.address
RouterAddr == "terraswap_router"

\* env.block.time.seconds() and the deadlines a caller may give
BlockTimes == {2}

Deadlines == {None, Some(1), Some(2), Some(3)}

Amounts == 0..MaxBal

\* balances before the transaction: every account holds b of every asset
InitialBalances == {[a \in Addrs |-> [x \in AssetInfos |-> b]] : b \in Amounts}

\* AssetInfo::query_pool: the balance of addr in asset_info
query_pool(bal, asset_info, addr) == bal[addr][asset_info]

\* SwapOperation::get_target_asset_info
get_target_asset_info(operation) ==
    IF operation.kind = "NativeSwap"
    THEN NativeToken(operation.ask_denom)
    ELSE operation.ask_asset_info

\* util::assert_deadline: the block time must not exceed the deadline
assert_deadline(blocktime, deadline) ==
    IF IsSome(deadline) /\ blocktime > Unwrap(deadline) THEN ErrExpired ELSE OK

----------------------------------------------------------------------------
(* Messages and responses *)

\* CosmosMsg::Wasm(WasmMsg::Execute { contract_addr, funds: vec![], msg })
WasmExecute(contract_addr, msg) ==
    [contract_addr |-> contract_addr, funds |-> <<>>, msg |-> msg]

ExecuteSwapOperationMsg(operation, to, deadline) ==
    [type |-> "ExecuteSwapOperation", operation |-> operation, to |-> to,
     deadline |-> deadline]

AssertMinimumReceiveMsg(asset_info, prev_balance, minimum_receive, receiver) ==
    [type |-> "AssertMinimumReceive", asset_info |-> asset_info,
     prev_balance |-> prev_balance, minimum_receive |-> minimum_receive,
     receiver |-> receiver]

\* Err(e): no message is returned; reads are the balance queries made so far
Failure(e, reads) == [err |-> e, messages |-> <<>>, reads |-> reads]

\* Ok(Response::new().add_messages(messages))
Success(messages, reads) == [err |-> OK, messages |-> messages, reads |-> reads]

NoResp == [err |-> NotCalled, messages |-> <<>>, reads |-> <<>>]

NoCall == [type |-> "none"]

----------------------------------------------------------------------------
(* execute_swap_operations *)

HopMessages_to_on_all(contract_addr, operations, to) ==
    [i \in 1..Len(operations) |->
        WasmExecute(contract_addr,
            ExecuteSwapOperationMsg(operations[i], Some(to), None))]

\* one self-addressed ExecuteSwapOperation per operation, the last one with to
HopMessages(contract_addr, operations, to) ==
    LET operations_len == Len(operations)
    IN  [operation_index \in 1..operations_len |->
            WasmExecute(contract_addr,
                ExecuteSwapOperationMsg(
                    operations[operation_index],
                    IF operation_index = operations_len THEN Some(to) ELSE None,
                    None))]

AssertMessage_no_snapshot(bal, contract_addr, target_asset_info, minimum_receive, to) ==
    WasmExecute(contract_addr,
        AssertMinimumReceiveMsg(target_asset_info, 0, minimum_receive, to))

AssertMessage_padded(bal, contract_addr, target_asset_info, minimum_receive, to) ==
    WasmExecute(contract_addr,
        AssertMinimumReceiveMsg(target_asset_info,
            query_pool(bal, target_asset_info, to), minimum_receive + 1, to))

\* the AssertMinimumReceive message, with the receiver's balance read now
AssertMessage(bal, contract_addr, target_asset_info, minimum_receive, to) ==
    LET receiver_balance == query_pool(bal, target_asset_info, to)
    IN  WasmExecute(contract_addr,
            AssertMinimumReceiveMsg(target_asset_info, receiver_balance,
                                    minimum_receive, to))

Schedule_always_sender(bal, contract_addr, sender, operations, minimum_receive, to) ==
    LET target_asset_info == get_target_asset_info(operations[Len(operations)])
        messages == HopMessages(contract_addr, operations, sender)
    IN  IF IsSome(minimum_receive)
        THEN Success(
                Append(messages,
                    AssertMessage(bal, contract_addr, target_asset_info,
                                  Unwrap(minimum_receive), sender)),
                <<[asset_info |-> target_asset_info, addr |-> sender]>>)
        ELSE Success(messages, <<>>)

\* the part of execute_swap_operations after the three checks
Schedule(bal, contract_addr, sender, operations, minimum_receive, to) ==
    LET dest == IF IsSome(to) THEN Unwrap(to) ELSE sender
        target_asset_info == get_target_asset_info(operations[Len(operations)])
        messages == HopMessages(contract_addr, operations, dest)
    IN  IF IsSome(minimum_receive)
        THEN Success(
                Append(messages,
                    AssertMessage(bal, contract_addr, target_asset_info,
                                  Unwrap(minimum_receive), dest)),
                <<[asset_info |-> target_asset_info, addr |-> dest]>>)
        ELSE Success(messages, <<>>)

execute_swap_operations_deadline_last(bal, blocktime, contract_addr, sender, operations, minimum_receive, to, deadline) ==
    IF Len(operations) = 0 THEN Failure(ErrEmpty, <<>>)
    ELSE IF assert_operations(operations) # OK
    THEN Failure(assert_operations(operations), <<>>)
    ELSE IF assert_deadline(blocktime, deadline) # OK
    THEN Failure(assert_deadline(blocktime, deadline), <<>>)
    ELSE Schedule(bal, contract_addr, sender, operations, minimum_receive, to)

execute_swap_operations_no_validation(bal, blocktime, contract_addr, sender, operations, minimum_receive, to, deadline) ==
    IF assert_deadline(blocktime, deadline) # OK
    THEN Failure(assert_deadline(blocktime, deadline), <<>>)
    ELSE IF Len(operations) = 0 THEN Failure(ErrEmpty, <<>>)
    ELSE Schedule(bal, contract_addr, sender, operations, minimum_receive, to)

execute_swap_operations(bal, blocktime, contract_addr, sender, operations, minimum_receive, to, deadline) ==
    IF assert_deadline(blocktime, deadline) # OK
    THEN Failure(assert_deadline(blocktime, deadline), <<>>)
    ELSE IF Len(operations) = 0 THEN Failure(ErrEmpty, <<>>)
    ELSE IF assert_operations(operations) # OK
    THEN Failure(assert_operations(operations), <<>>)
    ELSE Schedule(bal, contract_addr, sender, operations, minimum_receive, to)

----------------------------------------------------------------------------
(* assert_minimum_receive *)

assert_minimum_receive_no_prev(bal, asset_info, prev_balance, minium_receive, receiver) ==
    LET receiver_balance == query_pool(bal, asset_info, receiver)
        reads == <<[asset_info |-> asset_info, addr |-> receiver]>>
    IN  IF receiver_balance < minium_receive
        THEN Failure(ErrAssertion(minium_receive, receiver_balance), reads)
        ELSE Success(<<>>, reads)

assert_minimum_receive_le(bal, asset_info, prev_balance, minium_receive, receiver) ==
    LET receiver_balance == query_pool(bal, asset_info, receiver)
        reads == <<[asset_info |-> asset_info, addr |-> receiver]>>
    IN  IF receiver_balance < prev_balance
        THEN Failure(ErrUnderflow, reads)
        ELSE IF receiver_balance - prev_balance <= minium_receive
        THEN Failure(ErrAssertion(minium_receive, receiver_balance - prev_balance), reads)
        ELSE Success(<<>>, reads)

assert_minimum_receive_saturating(bal, asset_info, prev_balance, minium_receive, receiver) ==
    LET receiver_balance == query_pool(bal, asset_info, receiver)
        reads == <<[asset_info |-> asset_info, addr |-> receiver]>>
        swap_amount == IF receiver_balance < prev_balance THEN 0
                       ELSE receiver_balance - prev_balance
    IN  IF swap_amount < minium_receive
        THEN Failure(ErrAssertion(minium_receive, swap_amount), reads)
        ELSE Success(<<>>, reads)

assert_minimum_receive(bal, asset_info, prev_balance, minium_receive, receiver) ==
    LET receiver_balance == query_pool(bal, asset_info, receiver)
        reads == <<[asset_info |-> asset_info, addr |-> receiver]>>
    IN  IF receiver_balance < prev_balance
        THEN Failure(ErrUnderflow, reads)    \* checked_sub
        ELSE LET swap_amount == receiver_balance - prev_balance
             IN  IF swap_amount < minium_receive
                 THEN Failure(ErrAssertion(minium_receive, swap_amount), reads)
                 ELSE Success(<<>>, reads)

----------------------------------------------------------------------------
(* What the simulators query: pairs, quotes and tax *)

\* CONFIG: the three factories set by instantiate
Config ==
    [terraswap_factory |-> "terraswap_factory", loop_factory |-> "loop_factory",
     astroport_factory |-> "astroport_factory"]

\* how a pair or the native market prices an amount: at par, less a fee of one
\* unit, at half price, or a thin pool that returns nothing beyond one unit
QuoteKinds == {"par", "fee", "half", "thin"}

\* the queries that can fail: none, every pair lookup, every pair quote, every
\* native market quote
FailModes == {"none", "pair_info", "simulation", "swap"}

SimEnvs == [quote : QuoteKinds, tax_cap : 0..(MaxBal + 1), fail : FailModes]

QuietEnv == [quote |-> "par", tax_cap |-> 0, fail |-> "none"]

\* the amount a quote query answers for amount a
Quote(env, a) ==
    CASE env.quote = "par" -> a
      [] env.quote = "fee" -> IF a = 0 THEN 0 ELSE a - 1
      [] env.quote = "half" -> a \div 2
      [] env.quote = "thin" -> IF a <= 1 THEN a ELSE 0

ErrReverseNative == <<"reverse simulation of native_swap is not supported yet">>

ErrPairInfo == <<"pair_info query failed">>

ErrSimulation == <<"simulation query failed">>

ErrSwap == <<"swap query failed">>

\* StdResult<Uint128> of a hop, with the queries the hop made
HopOk(amount, queries) == [err |-> OK, amount |-> amount, queries |-> queries]

HopErr(e, queries) == [err |-> e, amount |-> 0, queries |-> queries]

\* querier::compute_tax: no tax on nothing, else the capped tax
compute_tax(env, amount, denom) == IF amount = 0 THEN 0 ELSE env.tax_cap

\* querier::compute_reverse_tax
compute_reverse_tax(env, amount, denom) == IF amount = 0 THEN 0 ELSE env.tax_cap

TaxQuery(amount, denom) == [q |-> "tax", amount |-> amount, denom |-> denom]

ReverseTaxQuery(amount, denom) ==
    [q |-> "reverse_tax", amount |-> amount, denom |-> denom]

SwapQuery(offer_denom, amount, ask_denom) ==
    [q |-> "swap", offer_denom |-> offer_denom, amount |-> amount,
     ask_denom |-> ask_denom]

PairInfoQuery(factory, asset_infos) ==
    [q |-> "pair_info", factory |-> factory, asset_infos |-> asset_infos]

SimulationQuery(contract_addr, info, amount) ==
    [q |-> "simulation", contract_addr |-> contract_addr, info |-> info,
     amount |-> amount]

ReverseSimulationQuery(contract_addr, info, amount) ==
    [q |-> "reverse_simulation", contract_addr |-> contract_addr, info |-> info,
     amount |-> amount]

\* the pair a factory registers for two assets
PairAddr(factory, asset_infos) == <<factory, {asset_infos[1], asset_infos[2]}>>

\* querier::query_pair_info
query_pair_info(env, factory, asset_infos) ==
    IF env.fail = "pair_info"
    THEN [err |-> ErrPairInfo, contract_addr |-> <<>>]
    ELSE [err |-> OK, contract_addr |-> PairAddr(factory, asset_infos)]

----------------------------------------------------------------------------
(* simulate_swap_operations *)

simulate_return_amount_swapped_sub(env, factory, offer_amount, offer_asset_info, ask_asset_info) ==
    LET pair_query == PairInfoQuery(factory, <<offer_asset_info, ask_asset_info>>)
        pair_info == query_pair_info(env, factory, <<offer_asset_info, ask_asset_info>>)
        offer_native == offer_asset_info.type = "NativeToken"
        offer_tax == IF offer_native
                     THEN compute_tax(env, offer_amount, offer_asset_info.denom)
                     ELSE 0
        q1 == <<pair_query>> \o
              (IF offer_native
               THEN <<TaxQuery(offer_amount, offer_asset_info.denom)>> ELSE <<>>)
        net_offer == IF offer_native THEN offer_tax - offer_amount ELSE offer_amount
        q2 == Append(q1, SimulationQuery(pair_info.contract_addr,
                                         offer_asset_info, net_offer))
        return_amount == Quote(env, net_offer)
        ask_native == ask_asset_info.type = "NativeToken"
        ask_tax == IF ask_native
                   THEN compute_tax(env, return_amount, ask_asset_info.denom)
                   ELSE 0
        q3 == q2 \o (IF ask_native
                     THEN <<TaxQuery(return_amount, ask_asset_info.denom)>>
                     ELSE <<>>)
    IN  IF pair_info.err # OK THEN HopErr(pair_info.err, <<pair_query>>)
        ELSE IF offer_native /\ offer_tax < offer_amount THEN HopErr(ErrUnderflow, q1)
        ELSE IF env.fail = "simulation" THEN HopErr(ErrSimulation, q2)
        ELSE IF ask_tax > return_amount THEN HopErr(ErrUnderflow, q3)
        ELSE HopOk(return_amount - ask_tax, q3)

simulate_return_amount_tax_on_offer(env, factory, offer_amount, offer_asset_info, ask_asset_info) ==
    LET pair_query == PairInfoQuery(factory, <<offer_asset_info, ask_asset_info>>)
        pair_info == query_pair_info(env, factory, <<offer_asset_info, ask_asset_info>>)
        offer_native == offer_asset_info.type = "NativeToken"
        offer_tax == IF offer_native
                     THEN compute_tax(env, offer_amount, offer_asset_info.denom)
                     ELSE 0
        q1 == <<pair_query>> \o
              (IF offer_native
               THEN <<TaxQuery(offer_amount, offer_asset_info.denom)>> ELSE <<>>)
        net_offer == offer_amount - offer_tax
        q2 == Append(q1, SimulationQuery(pair_info.contract_addr,
                                         offer_asset_info, net_offer))
        return_amount == Quote(env, net_offer)
        ask_native == ask_asset_info.type = "NativeToken"
        ask_tax == IF ask_native
                   THEN compute_tax(env, offer_amount, ask_asset_info.denom)
                   ELSE 0
        q3 == q2 \o (IF ask_native
                     THEN <<TaxQuery(offer_amount, ask_asset_info.denom)>>
                     ELSE <<>>)
    IN  IF pair_info.err # OK THEN HopErr(pair_info.err, <<pair_query>>)
        ELSE IF offer_tax > offer_amount THEN HopErr(ErrUnderflow, q1)
        ELSE IF env.fail = "simulation" THEN HopErr(ErrSimulation, q2)
        ELSE IF ask_tax > return_amount THEN HopErr(ErrUnderflow, q3)
        ELSE HopOk(return_amount - ask_tax, q3)

simulate_return_amount(env, factory, offer_amount, offer_asset_info, ask_asset_info) ==
    LET pair_query == PairInfoQuery(factory, <<offer_asset_info, ask_asset_info>>)
        pair_info == query_pair_info(env, factory, <<offer_asset_info, ask_asset_info>>)
        \* Deduct tax before querying simulation
        offer_native == offer_asset_info.type = "NativeToken"
        offer_tax == IF offer_native
                     THEN compute_tax(env, offer_amount, offer_asset_info.denom)
                     ELSE 0
        q1 == <<pair_query>> \o
              (IF offer_native
               THEN <<TaxQuery(offer_amount, offer_asset_info.denom)>> ELSE <<>>)
        net_offer == offer_amount - offer_tax
        q2 == Append(q1, SimulationQuery(pair_info.contract_addr,
                                         offer_asset_info, net_offer))
        return_amount == Quote(env, net_offer)
        \* Deduct tax after querying simulation
        ask_native == ask_asset_info.type = "NativeToken"
        ask_tax == IF ask_native
                   THEN compute_tax(env, return_amount, ask_asset_info.denom)
                   ELSE 0
        q3 == q2 \o (IF ask_native
                     THEN <<TaxQuery(return_amount, ask_asset_info.denom)>>
                     ELSE <<>>)
    IN  IF pair_info.err # OK THEN HopErr(pair_info.err, <<pair_query>>)
        ELSE IF offer_tax > offer_amount THEN HopErr(ErrUnderflow, q1)
        ELSE IF env.fail = "simulation" THEN HopErr(ErrSimulation, q2)
        ELSE IF ask_tax > return_amount THEN HopErr(ErrUnderflow, q3)
        ELSE HopOk(return_amount - ask_tax, q3)

\* the hop as the loop sees it: its place, the amount it received, its outcome
\* ("ok", "err" for a returned Err, "panic" for an unwrap of an Err)
Hop(index, incoming, status, r) ==
    [index |-> index, incoming |-> incoming, status |-> status, err |-> r.err,
     amount |-> r.amount, queries |-> r.queries]

\* result?: an Err returns from the whole simulation
Try(index, incoming, r) ==
    Hop(index, incoming, IF r.err = OK THEN "ok" ELSE "err", r)

\* result.unwrap(): an Err panics
UnwrapResult(index, incoming, r) ==
    Hop(index, incoming, IF r.err = OK THEN "ok" ELSE "panic", r)

FactoryOf(operation) ==
    CASE operation.kind = "TerraSwap" -> Config.terraswap_factory
      [] operation.kind = "Loop" -> Config.loop_factory
      [] operation.kind = "Astroport" -> Config.astroport_factory

NativeSwapHop_always_tax(env, operation_index, operations_len, offer_amount, operation) ==
    LET tax == compute_tax(env, offer_amount, operation.offer_denom)
        q1 == <<TaxQuery(offer_amount, operation.offer_denom)>>
        net_offer == offer_amount - tax
        q2 == Append(q1, SwapQuery(operation.offer_denom, net_offer,
                                   operation.ask_denom))
    IN  IF tax > offer_amount THEN HopErr(ErrUnderflow, q1)
        ELSE IF env.fail = "swap" THEN HopErr(ErrSwap, q2)
        ELSE HopOk(Quote(env, net_offer), q2)

\* the NativeSwap arm of simulate_swap_operations
NativeSwapHop(env, operation_index, operations_len, offer_amount, operation) ==
    LET last == operation_index = operations_len
        \* Deduct tax before query simulation because last swap is swap_send
        tax == compute_tax(env, offer_amount, operation.offer_denom)
        q1 == IF last THEN <<TaxQuery(offer_amount, operation.offer_denom)>>
              ELSE <<>>
        net_offer == IF last THEN offer_amount - tax ELSE offer_amount
        q2 == Append(q1, SwapQuery(operation.offer_denom, net_offer,
                                   operation.ask_denom))
    IN  IF last /\ tax > offer_amount THEN HopErr(ErrUnderflow, q1)
        ELSE IF env.fail = "swap" THEN HopErr(ErrSwap, q2)
        ELSE HopOk(Quote(env, net_offer), q2)

\* one turn of the loop of simulate_swap_operations
SimulateHop(env, operation_index, operations_len, offer_amount, operation) ==
    IF operation.kind = "NativeSwap"
    THEN Try(operation_index, offer_amount,
             NativeSwapHop(env, operation_index, operations_len, offer_amount,
                           operation))
    ELSE UnwrapResult(operation_index, offer_amount,
             simulate_return_amount(env, FactoryOf(operation), offer_amount,
                                    operation.offer_asset_info,
                                    operation.ask_asset_info))

SimResult(status, err, amount, hops) ==
    [status |-> status, err |-> err, amount |-> amount, hops |-> hops]

NoSimResult == SimResult("none", NotCalled, 0, <<>>)

RECURSIVE SimulateFrom(_, _, _, _, _)
\* the loop of simulate_swap_operations from hop i on
SimulateFrom(env, operations, i, offer_amount, hops) ==
    IF i > Len(operations) THEN SimResult("ok", OK, offer_amount, hops)
    ELSE LET h == SimulateHop(env, i, Len(operations), offer_amount, operations[i])
         IN  IF h.status # "ok"
             THEN SimResult(h.status, h.err, 0, Append(hops, h))
             ELSE SimulateFrom(env, operations, i + 1, h.amount, Append(hops, h))

simulate_swap_operations_validating(env, offer_amount, operations) ==
    IF assert_operations(operations) # OK
    THEN SimResult("err", assert_operations(operations), 0, <<>>)
    ELSE SimulateFrom(env, operations, 1, offer_amount, <<>>)

simulate_swap_operations(env, offer_amount, operations) ==
    IF Len(operations) = 0 THEN SimResult("err", ErrEmpty, 0, <<>>)
    ELSE SimulateFrom(env, operations, 1, offer_amount, <<>>)

----------------------------------------------------------------------------
(* reverse_simulate_swap_operations *)

reverse_simulate_return_amount(env, factory, ask_amount, offer_asset_info, ask_asset_info) ==
    LET pair_query == PairInfoQuery(factory, <<offer_asset_info, ask_asset_info>>)
        pair_info == query_pair_info(env, factory, <<offer_asset_info, ask_asset_info>>)
        q1 == <<pair_query, ReverseSimulationQuery(pair_info.contract_addr,
                                                   ask_asset_info, ask_amount)>>
        offer_amount == Quote(env, ask_amount)
        \* Add tax after querying simulation
        offer_native == offer_asset_info.type = "NativeToken"
        q2 == q1 \o (IF offer_native
                     THEN <<ReverseTaxQuery(offer_amount, offer_asset_info.denom)>>
                     ELSE <<>>)
        tax == IF offer_native
               THEN compute_reverse_tax(env, offer_amount, offer_asset_info.denom)
               ELSE 0
    IN  IF pair_info.err # OK THEN HopErr(pair_info.err, <<pair_query>>)
        ELSE IF env.fail = "simulation" THEN HopErr(ErrSimulation, q1)
        ELSE HopOk(offer_amount + tax, q2)

ReverseNativeSwapHop_pass_through(ask_amount) == HopOk(ask_amount, <<>>)

\* the NativeSwap arm of reverse_simulate_swap_operations
ReverseNativeSwapHop(ask_amount) == HopErr(ErrReverseNative, <<>>)

\* one turn of the loop of reverse_simulate_swap_operations
ReverseSimulateHop(env, index, ask_amount, operation) ==
    IF operation.kind = "NativeSwap"
    THEN Try(index, ask_amount, ReverseNativeSwapHop(ask_amount))
    ELSE UnwrapResult(index, ask_amount,
             reverse_simulate_return_amount(env, FactoryOf(operation), ask_amount,
                                            operation.offer_asset_info,
                                            operation.ask_asset_info))

RECURSIVE ReverseSimulateFrom(_, _, _, _, _, _)
\* the loop of reverse_simulate_swap_operations from the k-th turn on, order
\* being the places of the hops in the order the loop takes them
ReverseSimulateFrom(env, operations, order, k, ask_amount, hops) ==
    IF k > Len(order) THEN SimResult("ok", OK, ask_amount, hops)
    ELSE LET h == ReverseSimulateHop(env, order[k], ask_amount, operations[order[k]])
         IN  IF h.status # "ok"
             THEN SimResult(h.status, h.err, 0, Append(hops, h))
             ELSE ReverseSimulateFrom(env, operations, order, k + 1, h.amount,
                                      Append(hops, h))

\* operations.into_iter().rev()
Rev(n) == [k \in 1..n |-> n + 1 - k]

reverse_simulate_swap_operations_forward_order(env, ask_amount, operations) ==
    IF Len(operations) = 0 THEN SimResult("err", ErrEmpty, 0, <<>>)
    ELSE ReverseSimulateFrom(env, operations, [k \in 1..Len(operations) |-> k],
                             1, ask_amount, <<>>)

reverse_simulate_swap_operations(env, ask_amount, operations) ==
    IF Len(operations) = 0 THEN SimResult("err", ErrEmpty, 0, <<>>)
    ELSE ReverseSimulateFrom(env, operations, Rev(Len(operations)), 1,
                             ask_amount, <<>>)

----------------------------------------------------------------------------
(* The host: one transaction, its messages delivered one at a time *)

\* the literal chains of test_invalid_operations
TestChains ==
    { <<NativeSwap("uusd", "uluna"),
        TerraSwap(NativeToken("ukrw"), Token("asset0001")),
        TerraSwap(Token("asset0001"), NativeToken("uluna"))>>,
      <<NativeSwap("uusd", "uluna"),
        TerraSwap(NativeToken("ukrw"), Token("asset0001")),
        TerraSwap(Token("asset0001"), NativeToken("uluna")),
        TerraSwap(NativeToken("uluna"), Token("asset0002"))>>,
      <<NativeSwap("uusd", "ukrw"),
        TerraSwap(NativeToken("ukrw"), Token("asset0001")),
        TerraSwap(Token("asset0001"), NativeToken("uaud")),
        TerraSwap(NativeToken("uluna"), Token("asset0002"))>> }

Init ==
    /\ balance \in InitialBalances
    /\ saved = balance
    /\ queue = <<>>
    /\ txStatus = "idle"
    /\ call = NoCall
    /\ resp = NoResp
    /\ goal = None
    /\ vOps = <<>>
    /\ vRes = NotCalled
    /\ sEnv = QuietEnv
    /\ sCall = NoCall
    /\ sRes = NoSimResult

\* a failing message: the whole transaction is rolled back
Abort ==
    /\ balance' = saved
    /\ queue' = <<>>
    /\ txStatus' = "aborted"

\* a message that succeeded: its own messages run next, then the rest
Continue(messages) ==
    /\ queue' = messages
    /\ txStatus' = IF messages = <<>> THEN "committed" ELSE "running"

\* ExecuteMsg::ExecuteSwapOperations (and the same hook reached through Receive)
ExecuteSwapOperations(blocktime, sender, operations, minimum_receive, to, deadline) ==
    /\ txStatus = "idle"
    /\ LET r == execute_swap_operations(balance, blocktime, RouterAddr, sender,
                    operations, minimum_receive, to, deadline)
       IN  /\ call' = [type |-> "ExecuteSwapOperations", blocktime |-> blocktime,
                       sender |-> sender, operations |-> operations,
                       minimum_receive |-> minimum_receive, to |-> to,
                       deadline |-> deadline]
           /\ resp' = r
           /\ saved' = balance
           /\ IF r.err = OK
              THEN /\ Continue(r.messages)
                   /\ balance' = balance
                   /\ goal' = IF IsSome(minimum_receive)
                              THEN Some([receiver |-> IF IsSome(to) THEN Unwrap(to) ELSE sender,
                                         asset_info |-> OfferAsk(operations[Len(operations)]).ask,
                                         minimum |-> Unwrap(minimum_receive)])
                              ELSE None
              ELSE /\ Abort
                   /\ goal' = None
    /\ UNCHANGED <<vOps, vRes, sEnv, sCall, sRes>>

\* ExecuteMsg::AssertMinimumReceive sent by anyone as a transaction of its own
AssertMinimumReceive(asset_info, prev_balance, minimum_receive, receiver) ==
    /\ txStatus = "idle"
    /\ LET r == assert_minimum_receive(balance, asset_info, prev_balance,
                                       minimum_receive, receiver)
       IN  /\ call' = AssertMinimumReceiveMsg(asset_info, prev_balance,
                                              minimum_receive, receiver)
           /\ resp' = r
           /\ saved' = balance
           /\ IF r.err = OK
              THEN Continue(r.messages) /\ balance' = balance
              ELSE Abort
    /\ UNCHANGED <<goal, vOps, vRes, sEnv, sCall, sRes>>

\* the host delivers an ExecuteSwapOperation message: the hop fails, or it runs
\* and moves funds (the balance of one account in one asset changes)
DeliverHop ==
    /\ txStatus = "running"
    /\ queue # <<>>
    /\ Head(queue).msg.type = "ExecuteSwapOperation"
    /\ call' = [type |-> "ExecuteSwapOperation", to |-> Head(queue).msg.to]
    /\ \/ /\ resp' = Failure(<<"swap failed">>, <<>>)
          /\ Abort
       \/ /\ resp' = Success(<<>>, <<>>)
          /\ Continue(Tail(queue))
          /\ \E a \in Addrs, x \in AssetInfos, v \in Amounts :
                balance' = [balance EXCEPT ![a][x] = v]
    /\ UNCHANGED <<saved, goal, vOps, vRes, sEnv, sCall, sRes>>

\* the host delivers the AssertMinimumReceive message
DeliverAssert ==
    /\ txStatus = "running"
    /\ queue # <<>>
    /\ Head(queue).msg.type = "AssertMinimumReceive"
    /\ LET m == Head(queue).msg
           r == assert_minimum_receive(balance, m.asset_info, m.prev_balance,
                                       m.minimum_receive, m.receiver)
       IN  /\ call' = m
           /\ resp' = r
           /\ IF r.err = OK
              THEN Continue(r.messages \o Tail(queue)) /\ balance' = balance
              ELSE Abort
    /\ UNCHANGED <<saved, goal, vOps, vRes, sEnv, sCall, sRes>>

\* the inputs a caller may choose
ExecuteInputs ==
    [blocktime : BlockTimes, sender : Addrs,
     operations : Chains(SwapOperations, MaxOps),
     minimum_receive : {None} \cup {Some(m) : m \in Amounts},
     to : {None} \cup {Some(a) : a \in Addrs},
     deadline : Deadlines]

AssertInputs ==
    [asset_info : AssetInfos, prev_balance : Amounts,
     minimum_receive : Amounts, receiver : Addrs]

SubmitExecuteSwapOperations ==
    /\ txStatus = "idle"
    /\ \E i \in ExecuteInputs :
          ExecuteSwapOperations(i.blocktime, i.sender, i.operations,
                                i.minimum_receive, i.to, i.deadline)

SubmitAssertMinimumReceive ==
    /\ txStatus = "idle"
    /\ \E i \in AssertInputs :
          AssertMinimumReceive(i.asset_info, i.prev_balance,
                               i.minimum_receive, i.receiver)

Next ==
    \/ SubmitExecuteSwapOperations
    \/ SubmitAssertMinimumReceive
    \/ DeliverHop
    \/ DeliverAssert

Spec == Init /\ [][Next]_vars

----------------------------------------------------------------------------
(* assert_operations called on its own, as test_invalid_operations does *)

InitValidate ==
    /\ balance = [a \in Addrs |-> [x \in AssetInfos |-> 0]]
    /\ saved = balance
    /\ queue = <<>>
    /\ txStatus = "idle"
    /\ call = NoCall
    /\ resp = NoResp
    /\ goal = None
    /\ vOps = <<>>
    /\ vRes = NotCalled
    /\ sEnv = QuietEnv
    /\ sCall = NoCall
    /\ sRes = NoSimResult

Validate(operations) ==
    /\ vRes = NotCalled
    /\ vOps' = operations
    /\ vRes' = assert_operations(operations)
    /\ UNCHANGED <<balance, saved, queue, txStatus, call, resp, goal, sEnv, sCall, sRes>>

NextValidate ==
    /\ vRes = NotCalled
    /\ \E operations \in Chains(SwapOperations, MaxChain) \cup TestChains :
          Validate(operations)

SpecValidate == InitValidate /\ [][NextValidate]_vars

----------------------------------------------------------------------------
(* The two simulation queries, each asked once of a fixed querier *)

SimAmounts == 0..(MaxBal + 1)

SimChains == Chains(SwapOperations, MaxOps)

InitSimulate ==
    /\ balance = [a \in Addrs |-> [x \in AssetInfos |-> 0]]
    /\ saved = balance
    /\ queue = <<>>
    /\ txStatus = "idle"
    /\ call = NoCall
    /\ resp = NoResp
    /\ goal = None
    /\ vOps = <<>>
    /\ vRes = NotCalled
    /\ sEnv \in SimEnvs
    /\ sCall = NoCall
    /\ sRes = NoSimResult

\* QueryMsg::SimulateSwapOperations
SimulateSwapOperations(offer_amount, operations) ==
    /\ sCall' = [type |-> "SimulateSwapOperations", amount |-> offer_amount,
                 operations |-> operations]
    /\ sRes' = simulate_swap_operations(sEnv, offer_amount, operations)
    /\ UNCHANGED <<balance, saved, queue, txStatus, call, resp, goal, vOps, vRes,
                   sEnv>>

\* QueryMsg::ReverseSimulateSwapOperations
ReverseSimulateSwapOperations(ask_amount, operations) ==
    /\ sCall' = [type |-> "ReverseSimulateSwapOperations", amount |-> ask_amount,
                 operations |-> operations]
    /\ sRes' = reverse_simulate_swap_operations(sEnv, ask_amount, operations)
    /\ UNCHANGED <<balance, saved, queue, txStatus, call, resp, goal, vOps, vRes,
                   sEnv>>

QuerySimulate ==
    /\ sCall = NoCall
    /\ \E amount \in SimAmounts, operations \in SimChains :
          SimulateSwapOperations(amount, operations)

QueryReverseSimulate ==
    /\ sCall = NoCall
    /\ \E amount \in SimAmounts, operations \in SimChains :
          ReverseSimulateSwapOperations(amount, operations)

NextSimulate ==
    \/ QuerySimulate
    \/ QueryReverseSimulate

SpecSimulate == InitSimulate /\ [][NextSimulate]_vars

----------------------------------------------------------------------------
(* Properties of the execution protocol, checked under Spec *)

\* the last handler run was execute_swap_operations
ExecuteRan == call.type = "ExecuteSwapOperations"

\* ... and it returned Ok
ExecuteOk == ExecuteRan /\ resp.err = OK

\* the deadline given to execute_swap_operations had passed
DeadlinePassed == IsSome(call.deadline) /\ call.blocktime > Unwrap(call.deadline)

\* the destination of the call: the given address, the sender when none is given
Destination == IF IsSome(call.to) THEN Unwrap(call.to) ELSE call.sender

\* the ask asset of the last hop of the submitted chain
FinalAsset == OfferAsk(call.operations[Len(call.operations)]).ask

\* C1: a chain submitted with minimum_receive = m commits only if the
\* destination's balance of the last hop's ask asset ends at least m above its
\* balance at submission; whenever it rose by less, the transaction did not
\* commit.
C1_MinimumReceiveGuarantee ==
    (txStatus = "committed" /\ IsSome(goal)) =>
        LET g == Unwrap(goal)
        IN  balance[g.receiver][g.asset_info]
                >= saved[g.receiver][g.asset_info] + g.minimum

\* a chain with a positive minimum committed after the assertion ran, the
\* destination holding exactly the snapshot plus the minimum
C1_Witness ==
    /\ txStatus = "committed"
    /\ IsSome(goal)
    /\ call.type = "AssertMinimumReceive"
    /\ Unwrap(goal).minimum > 0
    /\ balance[Unwrap(goal).receiver][Unwrap(goal).asset_info]
          = saved[Unwrap(goal).receiver][Unwrap(goal).asset_info] + Unwrap(goal).minimum

\* this step ran assert_minimum_receive (call' holds its arguments, balance the
\* balances it read)
AssertRuns ==
    /\ call'.type = "AssertMinimumReceive"
    /\ \/ txStatus = "idle"
       \/ /\ txStatus = "running"
          /\ queue # <<>>
          /\ Head(queue).msg.type = "AssertMinimumReceive"

\* C2: assert_minimum_receive fails iff the receiver's current balance minus
\* prev_balance is below minimum_receive; otherwise (also when the difference
\* equals minimum_receive) it succeeds, changes no state and returns no message.
C2_AssertFailsIffDeltaBelowMinimum ==
    [][AssertRuns =>
        LET current_balance == balance[call'.receiver][call'.asset_info]
        IN  /\ (resp'.err # OK) <=>
                  (current_balance - call'.prev_balance < call'.minimum_receive)
            /\ (resp'.err = OK) =>
                  /\ balance' = balance
                  /\ resp'.messages = <<>>
                  /\ txStatus' # "aborted"]_vars

\* the assertion ran inside a chain and passed on the boundary: the balance
\* rose by exactly a positive minimum_receive
C2_Witness ==
    /\ call.type = "AssertMinimumReceive"
    /\ resp.err = OK
    /\ IsSome(goal)
    /\ call.minimum_receive > 0
    /\ balance[call.receiver][call.asset_info] - call.prev_balance
          = call.minimum_receive

\* C3: execute_swap_operations called after its deadline fails with the
\* expired-deadline error and schedules nothing, whatever the chain (empty and
\* invalid chains included), minimum_receive and destination.
C3_ExpiredDeadlineFails ==
    (ExecuteRan /\ DeadlinePassed) =>
        /\ resp.err = ErrExpired
        /\ resp.messages = <<>>
        /\ queue = <<>>
        /\ txStatus = "aborted"

\* an expired call on the empty chain, with a minimum and a destination
C3_Witness ==
    /\ ExecuteRan
    /\ DeadlinePassed
    /\ call.operations = <<>>
    /\ IsSome(call.minimum_receive)
    /\ IsSome(call.to)
    /\ resp.err = ErrExpired

\* C4: on success the response of a chain of n hops starts with n
\* self-addressed ExecuteSwapOperation messages, the i-th carrying the i-th
\* operation; only the n-th carries a destination; the list has n messages
\* without minimum_receive and n+1 with it, the last one then being the
\* AssertMinimumReceive message.
C4_MessageList ==
    ExecuteOk =>
        LET n == Len(call.operations)
            messages == resp.messages
        IN  /\ queue = messages
            /\ Len(messages) = IF IsSome(call.minimum_receive) THEN n + 1 ELSE n
            /\ \A i \in 1..n :
                  /\ messages[i].contract_addr = RouterAddr
                  /\ messages[i].msg.type = "ExecuteSwapOperation"
                  /\ messages[i].msg.operation = call.operations[i]
                  /\ IsSome(messages[i].msg.to) <=> (i = n)
            /\ IsSome(call.minimum_receive) =>
                  /\ messages[n + 1].contract_addr = RouterAddr
                  /\ messages[n + 1].msg.type = "AssertMinimumReceive"

\* a two-hop chain of two different operations scheduled with a minimum
C4_Witness ==
    /\ ExecuteOk
    /\ Len(call.operations) = 2
    /\ call.operations[1] # call.operations[2]
    /\ IsSome(call.minimum_receive)
    /\ Len(queue) = 3

\* the AssertMinimumReceive message waiting at the end of the queue
PendingAssert == queue[Len(queue)].msg

HasPendingAssert ==
    /\ txStatus = "running"
    /\ queue # <<>>
    /\ PendingAssert.type = "AssertMinimumReceive"

\* C5: with minimum_receive present the balance is read before any hop message
\* is handed to the host: when execute_swap_operations returns, no hop has
\* acted, and the prev_balance the assertion message carries is the destination's
\* balance from before every hop of the chain, however the hops change it later.
C5_SnapshotBeforeHops ==
    /\ (ExecuteOk /\ IsSome(call.minimum_receive)) =>
          /\ balance = saved
          /\ Len(queue) = Len(call.operations) + 1
          /\ resp.reads = <<[asset_info |-> FinalAsset, addr |-> Destination]>>
    /\ HasPendingAssert =>
          PendingAssert.prev_balance
              = saved[PendingAssert.receiver][PendingAssert.asset_info]

\* every hop has run and changed the destination's balance; the message still
\* carries the balance from before the hops
C5_Witness ==
    /\ HasPendingAssert
    /\ Len(queue) = 1
    /\ call.type = "ExecuteSwapOperation"
    /\ balance[PendingAssert.receiver][PendingAssert.asset_info]
          # saved[PendingAssert.receiver][PendingAssert.asset_info]
    /\ PendingAssert.prev_balance > 0

\* C6: the AssertMinimumReceive message carries exactly the caller's
\* minimum_receive, the ask asset of the last hop, and as receiver the resolved
\* destination, the address the last hop message routes to.
C6_AssertMessageContents ==
    (ExecuteOk /\ IsSome(call.minimum_receive)) =>
        LET n == Len(call.operations)
            m == resp.messages[n + 1].msg
        IN  /\ m.minimum_receive = Unwrap(call.minimum_receive)
            /\ m.asset_info = FinalAsset
            /\ m.receiver = Destination
            /\ resp.messages[n].msg.to = Some(m.receiver)

\* a two-hop chain whose hops end in different assets, sent to someone other
\* than the sender, with a positive minimum
C6_Witness ==
    /\ ExecuteOk
    /\ IsSome(call.minimum_receive)
    /\ Unwrap(call.minimum_receive) > 0
    /\ Len(call.operations) = 2
    /\ OfferAsk(call.operations[1]).ask # FinalAsset
    /\ IsSome(call.to)
    /\ Unwrap(call.to) # call.sender

----------------------------------------------------------------------------
(* Properties of assert_operations, checked under SpecValidate *)

Validated == vRes # NotCalled

\* C7 as stated: assert_operations on the empty chain fails with the
\* must-provide-operations (Empty) error.
C7_EmptyChainFailsWithEmpty ==
    (Validated /\ vOps = <<>>) => vRes = ErrEmpty

\* C7, amended: assert_operations on the empty chain always fails, and the
\* error is the multiple-output error of the key count after the loop.
C7_EmptyChainFailsWithMultipleOutputs ==
    (Validated /\ vOps = <<>>) =>
        /\ vRes # OK
        /\ vRes = ErrMultipleOutputs
        /\ vRes # ErrEmpty

C7_Witness == Validated /\ vOps = <<>> /\ vRes # OK

\* each hop's offer asset is the previous hop's ask asset
PairwiseChained(operations) ==
    \A i \in 2..Len(operations) :
        OfferAsk(operations[i]).offer = OfferAsk(operations[i - 1]).ask

\* C8: every non-empty chain whose hops are pairwise ask-to-offer chained is
\* accepted by assert_operations, whatever its length and backends.
C8_ChainedChainsAccepted ==
    (Validated /\ vOps # <<>> /\ PairwiseChained(vOps)) => vRes = OK

\* a chained chain of three hops over three backends, through both assets
C8_Witness ==
    /\ Validated
    /\ Len(vOps) >= 3
    /\ PairwiseChained(vOps)
    /\ vOps[1].kind = "NativeSwap"
    /\ vOps[2].kind = "Loop"
    /\ vOps[3].kind = "Astroport"
    /\ OfferAsk(vOps[2]).ask # OfferAsk(vOps[2]).offer
    /\ vRes = OK

\* the reduction of the claim: from the empty set, per hop, remove the offer
\* asset then insert the ask asset
RECURSIVE Reduction(_, _, _)
Reduction(operations, i, set) ==
    IF i > Len(operations) THEN set
    ELSE Reduction(operations, i + 1,
            (set \ {OfferAsk(operations[i]).offer}) \cup {OfferAsk(operations[i]).ask})

\* C9: on a non-empty chain assert_operations succeeds iff the reduction
\* leaves exactly one asset and fails with the multiple-output error iff it
\* leaves two or more.
C9_ResultIsTheReduction ==
    (Validated /\ vOps # <<>>) =>
        LET left == Cardinality(Reduction(vOps, 1, {}))
        IN  /\ (vRes = OK) <=> (left = 1)
            /\ (vRes = ErrMultipleOutputs) <=> (left >= 2)

\* the chain [uusd->ukrw, ukrw->asset0001, asset0001->uaud, uluna->asset0002]
\* of the unit test, rejected with uaud and asset0002 left
C9_Witness ==
    /\ Validated
    /\ Len(vOps) = 4
    /\ Reduction(vOps, 1, {}) = {NativeToken("uaud"), Token("asset0002")}
    /\ vRes = ErrMultipleOutputs

----------------------------------------------------------------------------
(* Further properties of the execution protocol, checked under Spec *)

\* C15: the destination is the sender when no address is given and the given
\* address otherwise; that address is the to of the last hop message, the
\* account whose balance is read, and the receiver of the assertion message.
C15_DestinationResolution ==
    ExecuteOk =>
        LET n == Len(call.operations)
            dest == IF call.to = None THEN call.sender ELSE Unwrap(call.to)
        IN  /\ resp.messages[n].msg.to = Some(dest)
            /\ IsSome(call.minimum_receive) =>
                  /\ resp.reads = <<[asset_info |-> FinalAsset, addr |-> dest]>>
                  /\ resp.messages[n + 1].msg.receiver = dest
                  /\ resp.messages[n + 1].msg.prev_balance = saved[dest][FinalAsset]

\* no destination given: the second account sends and is the receiver
C15_Witness ==
    /\ ExecuteOk
    /\ call.to = None
    /\ call.sender = "addr0001"
    /\ IsSome(call.minimum_receive)
    /\ resp.messages[Len(resp.messages)].msg.receiver = "addr0001"

\* C20: when the receiver's balance is below prev_balance,
\* assert_minimum_receive fails with the subtraction's underflow error and not
\* with the assertion-failed error, whatever minimum_receive is, zero included.
C20_UnderflowBelowPrevBalance ==
    [][(AssertRuns /\ balance[call'.receiver][call'.asset_info] < call'.prev_balance)
          => /\ resp'.err = ErrUnderflow
             /\ txStatus' = "aborted"]_vars

\* inside a chain with minimum zero, the hops lowered the destination's
\* balance and the assertion failed on the subtraction
C20_Witness ==
    /\ call.type = "AssertMinimumReceive"
    /\ IsSome(goal)
    /\ call.minimum_receive = 0
    /\ call.prev_balance > 0
    /\ resp.err = ErrUnderflow
    /\ txStatus = "aborted"

----------------------------------------------------------------------------
(* Further properties of assert_operations, checked under SpecValidate *)

\* C19: assert_operations does not require adjacent hops: a non-empty chain
\* with a hop whose offer asset is not the previous hop's ask asset is accepted
\* whenever the reduction leaves one asset, as [uusd->uluna, ukrw->asset0001,
\* asset0001->uluna] of the unit test is.
C19_NonAdjacentChainsAccepted ==
    (Validated /\ vOps # <<>> /\ ~PairwiseChained(vOps)
        /\ Cardinality(Reduction(vOps, 1, {})) = 1) => vRes = OK

C19_Witness ==
    /\ Validated
    /\ vOps = <<NativeSwap("uusd", "uluna"),
                TerraSwap(NativeToken("ukrw"), Token("asset0001")),
                TerraSwap(Token("asset0001"), NativeToken("uluna"))>>
    /\ ~PairwiseChained(vOps)
    /\ vRes = OK

----------------------------------------------------------------------------
(* Properties of the simulation queries, checked under SpecSimulate *)

ForwardRan == sCall.type = "SimulateSwapOperations"

ReverseRan == sCall.type = "ReverseSimulateSwapOperations"

SimulationRan == ForwardRan \/ ReverseRan

\* the places of the NativeSwap hops of a chain
NativeSwaps(operations) ==
    {i \in 1..Len(operations) : operations[i].kind = "NativeSwap"}

\* the largest member of a non-empty set of places
Last(places) == CHOOSE i \in places : \A j \in places : j <= i

\* C12 as stated: every failure inside a simulation, of a backend hop's pair
\* lookup, of its quote, or an underflow of its tax subtraction, comes back as
\* an error result, as a NativeSwap hop's failure does; a simulation never
\* ends in any other kind of abort.
C12_FailuresAreStructuredErrors ==
    SimulationRan => sRes.status \in {"ok", "err"}

\* C13 as stated: a chain that assert_operations rejects is never quoted by
\* either simulator, and the simulation fails.
C13_RejectedChainsNeverQuoted ==
    (SimulationRan /\ assert_operations(sCall.operations) # OK)
        => /\ sRes.status # "ok"
           /\ sRes.hops = <<>>

\* C13, amended: the simulators check only that the chain is not empty. The
\* empty chain fails with the must-provide-operations error and no query; every
\* other chain, accepted by assert_operations or not, has its first hop in
\* walking order quoted, never fails with the validator's error, and returns
\* an amount exactly when every one of its hops has been quoted successfully.
C13_SimulatorsCheckOnlyEmptiness ==
    SimulationRan =>
        LET operations == sCall.operations
            first == IF ForwardRan THEN 1 ELSE Len(operations)
        IN  /\ operations = <<>> => sRes = SimResult("err", ErrEmpty, 0, <<>>)
            /\ operations # <<>> =>
                  /\ sRes.hops # <<>>
                  /\ sRes.hops[1].index = first
                  /\ sRes.err # ErrMultipleOutputs
                  /\ sRes.status = sRes.hops[Len(sRes.hops)].status
                  /\ \A k \in 1..(Len(sRes.hops) - 1) : sRes.hops[k].status = "ok"
                  /\ sRes.status = "ok" <=>
                        /\ Len(sRes.hops) = Len(operations)
                        /\ \A k \in 1..Len(sRes.hops) : sRes.hops[k].status = "ok"

C13_Witness ==
    /\ ForwardRan
    /\ sCall.operations = <<TerraSwap(NativeToken("uluna"), Token("asset0001")),
                            Loop(NativeToken("uluna"), NativeToken("uluna"))>>
    /\ assert_operations(sCall.operations) = ErrMultipleOutputs
    /\ sRes.status = "ok"
    /\ Len(sRes.hops) = 2
    /\ sRes.amount > 0

\* C11 as stated: reverse simulation of a non-empty chain with a NativeSwap
\* hop at any place fails with the reverse-native error, whatever the other
\* hops are and whatever their queries answer.
C11_ReverseNativeAlwaysUnsupported ==
    (ReverseRan /\ NativeSwaps(sCall.operations) # {})
        => /\ sRes.status = "err"
           /\ sRes.err = ErrReverseNative

\* C11, amended: reverse simulation of a chain with a NativeSwap hop never
\* returns an amount. The hops after the last NativeSwap hop are quoted first,
\* last to first: when a pair lookup or a reverse quote of one of them fails,
\* the simulation ends there, in the panic of that failure; otherwise (no hop
\* follows it, or all of them are quoted) it reaches the NativeSwap hop and
\* fails with the reverse-native error, without a query for that hop.
C11_ReverseNativeNeverQuotes ==
    (ReverseRan /\ NativeSwaps(sCall.operations) # {}) =>
        LET operations == sCall.operations
            j == Last(NativeSwaps(operations))
            n == Len(sRes.hops)
        IN  /\ sRes.status # "ok"
            /\ IF j < Len(operations) /\ sEnv.fail \in {"pair_info", "simulation"}
               THEN /\ sRes.status = "panic"
                    /\ sRes.err = (IF sEnv.fail = "pair_info" THEN ErrPairInfo
                                   ELSE ErrSimulation)
                    /\ n = 1
                    /\ sRes.hops[1].index = Len(operations)
               ELSE /\ sRes.status = "err"
                    /\ sRes.err = ErrReverseNative
                    /\ n = Len(operations) - j + 1
                    /\ sRes.hops[n].index = j
                    /\ sRes.hops[n].queries = <<>>

C11_Witness ==
    /\ ReverseRan
    /\ sCall.operations = <<NativeSwap("uluna", "uluna"),
                            TerraSwap(NativeToken("uluna"), Token("asset0001"))>>
    /\ sEnv.fail = "none"
    /\ Len(sRes.hops) = 2
    /\ sRes.hops[1].status = "ok"
    /\ sRes.err = ErrReverseNative

\* the amount the k-th hop the loop took received: the query's amount for the
\* first, the amount the hop before it passed on for the others
Threaded(k) == IF k = 1 THEN sCall.amount ELSE sRes.hops[k - 1].amount

\* the amount the k-th hop passed on goes to the next hop, or is the result
PassedOn(k) ==
    IF k < Len(sRes.hops) THEN sRes.hops[k + 1].incoming = sRes.hops[k].amount
    ELSE sRes.status = "ok" /\ sRes.amount = sRes.hops[k].amount

\* C16: in a forward simulation a NativeSwap hop receives the amount threaded
\* from the hop before it; exactly when it is the last hop of the chain the tax
\* on that amount and its offer denom is queried and deducted before the swap
\* query (an underflow ending the simulation), otherwise the swap query is
\* made at the amount received; the amount passed on is the quote's answer.
C16_NativeHopTaxedOnlyWhenLast ==
    ForwardRan =>
        \A k \in 1..Len(sRes.hops) :
            LET h == sRes.hops[k]
                operation == sCall.operations[h.index]
                last == h.index = Len(sCall.operations)
                tax == IF h.incoming = 0 THEN 0 ELSE sEnv.tax_cap
                tax_query == TaxQuery(h.incoming, operation.offer_denom)
                quoted == IF last THEN h.incoming - tax ELSE h.incoming
            IN  operation.kind = "NativeSwap" =>
                  /\ h.index = k
                  /\ h.incoming = Threaded(k)
                  /\ IF last /\ tax > h.incoming
                     THEN /\ h.status = "err"
                          /\ h.err = ErrUnderflow
                          /\ h.queries = <<tax_query>>
                     ELSE /\ h.queries =
                                (IF last THEN <<tax_query>> ELSE <<>>)
                                \o <<SwapQuery(operation.offer_denom, quoted,
                                               operation.ask_denom)>>
                          /\ h.status = "ok" =>
                                /\ h.amount = Quote(sEnv, quoted)
                                /\ PassedOn(k)

C16_Witness ==
    /\ ForwardRan
    /\ sCall.operations = <<NativeSwap("uluna", "uluna"), NativeSwap("uluna", "uluna")>>
    /\ sCall.amount = 2
    /\ sEnv = [quote |-> "par", tax_cap |-> 1, fail |-> "none"]
    /\ sRes.hops[1].queries = <<SwapQuery("uluna", 2, "uluna")>>
    /\ sRes.hops[2].queries = <<TaxQuery(2, "uluna"), SwapQuery("uluna", 1, "uluna")>>
    /\ sRes.status = "ok"
    /\ sRes.amount = 1

\* C17: in a forward simulation every TerraSwap, Loop or Astroport hop, at any
\* place, looks its pair up at its own factory and receives the threaded
\* amount; the pair is asked to quote that amount less the tax on it when the
\* offer asset is native, and that amount itself when it is a token; the amount
\* passed on is the pair's answer less the tax on the answer when the ask asset
\* is native, and the answer itself when it is a token. The kind of the hop
\* enters through the factory only.
C17_BackendHopTaxes ==
    ForwardRan =>
        \A k \in 1..Len(sRes.hops) :
            LET h == sRes.hops[k]
                operation == sCall.operations[h.index]
                offer == operation.offer_asset_info
                ask == operation.ask_asset_info
                factory == CASE operation.kind = "TerraSwap" -> "terraswap_factory"
                             [] operation.kind = "Loop" -> "loop_factory"
                             [] operation.kind = "Astroport" -> "astroport_factory"
                offer_native == offer.type = "NativeToken"
                ask_native == ask.type = "NativeToken"
                offer_tax == IF h.incoming = 0 THEN 0 ELSE sEnv.tax_cap
                sent == IF offer_native THEN h.incoming - offer_tax ELSE h.incoming
                gross == Quote(sEnv, sent)
                ask_tax == IF gross = 0 THEN 0 ELSE sEnv.tax_cap
            IN  operation.kind # "NativeSwap" =>
                  /\ h.index = k
                  /\ h.incoming = Threaded(k)
                  /\ h.queries[1] = PairInfoQuery(factory, <<offer, ask>>)
                  /\ h.status = "ok" =>
                        /\ h.queries =
                              <<PairInfoQuery(factory, <<offer, ask>>)>>
                              \o (IF offer_native
                                  THEN <<TaxQuery(h.incoming, offer.denom)>>
                                  ELSE <<>>)
                              \o <<SimulationQuery(<<factory, {offer, ask}>>, offer, sent)>>
                              \o (IF ask_native THEN <<TaxQuery(gross, ask.denom)>>
                                  ELSE <<>>)
                        /\ h.amount = IF ask_native THEN gross - ask_tax ELSE gross
                        /\ PassedOn(k)

C17_Witness ==
    /\ ForwardRan
    /\ sCall.operations = <<TerraSwap(Token("asset0001"), NativeToken("uluna")),
                            Loop(NativeToken("uluna"), Token("asset0001"))>>
    /\ sCall.amount = 2
    /\ sEnv = [quote |-> "par", tax_cap |-> 1, fail |-> "none"]
    /\ sRes.hops[1].amount = 1
    /\ sRes.hops[2].queries[1].factory = "loop_factory"
    /\ sRes.hops[2].queries[3].amount = 0
    /\ sRes.status = "ok"

\* C18: a reverse simulation of a non-empty chain without NativeSwap hops
\* takes the hops last to first, the first of them receiving the query's
\* amount and each other one the amount of the hop taken before it; a hop asks
\* its pair, looked up at its own factory, for the reverse quote of the amount
\* it received and passes on that quote, plus the reverse tax on the quote
\* when its offer asset is native and nothing more otherwise; the result is
\* the amount passed on by the first hop of the chain.
C18_ReverseWalk ==
    (ReverseRan /\ sCall.operations # <<>> /\ NativeSwaps(sCall.operations) = {}) =>
        /\ \A k \in 1..Len(sRes.hops) :
              LET h == sRes.hops[k]
                  operation == sCall.operations[h.index]
                  offer == operation.offer_asset_info
                  ask == operation.ask_asset_info
                  factory == CASE operation.kind = "TerraSwap" -> "terraswap_factory"
                               [] operation.kind = "Loop" -> "loop_factory"
                               [] operation.kind = "Astroport" -> "astroport_factory"
                  offer_native == offer.type = "NativeToken"
                  quote == Quote(sEnv, h.incoming)
                  tax == IF quote = 0 THEN 0 ELSE sEnv.tax_cap
              IN  /\ h.index = Len(sCall.operations) - k + 1
                  /\ h.incoming = Threaded(k)
                  /\ h.queries[1] = PairInfoQuery(factory, <<offer, ask>>)
                  /\ h.status = "ok" =>
                        /\ h.queries =
                              <<PairInfoQuery(factory, <<offer, ask>>),
                                ReverseSimulationQuery(<<factory, {offer, ask}>>, ask,
                                                       h.incoming)>>
                              \o (IF offer_native
                                  THEN <<ReverseTaxQuery(quote, offer.denom)>>
                                  ELSE <<>>)
                        /\ h.amount = IF offer_native THEN quote + tax ELSE quote
        /\ sRes.status = "ok" =>
              /\ Len(sRes.hops) = Len(sCall.operations)
              /\ sRes.hops[Len(sRes.hops)].index = 1
              /\ sRes.amount = sRes.hops[Len(sRes.hops)].amount

C18_Witness ==
    /\ ReverseRan
    /\ sCall.operations = <<TerraSwap(NativeToken("uluna"), Token("asset0001")),
                            Astroport(Token("asset0001"), NativeToken("uluna"))>>
    /\ sCall.amount = 1
    /\ sEnv = [quote |-> "par", tax_cap |-> 1, fail |-> "none"]
    /\ sRes.hops[1].index = 2
    /\ sRes.hops[1].amount = 1
    /\ sRes.hops[2].index = 1
    /\ sRes.status = "ok"
    /\ sRes.amount = 2

\* a smaller amount whose forward simulation of the same chain at the same
\* querier succeeds never yields more
NoSmallerAmountYieldsMore ==
    \A a \in SimAmounts :
        LET r == simulate_swap_operations(sEnv, a, sCall.operations)
        IN  (a <= sCall.amount /\ r.status = "ok") => r.amount <= sRes.amount

MonotoneQuotes ==
    \A a, b \in SimAmounts : a <= b => Quote(sEnv, a) <= Quote(sEnv, b)

\* what is left after tax never falls as the taxed amount grows
MonotoneNetOfTax ==
    \A a, b \in SimAmounts :
        (a <= b /\ compute_tax(sEnv, a, "uluna") <= a
                /\ compute_tax(sEnv, b, "uluna") <= b)
            => a - compute_tax(sEnv, a, "uluna") <= b - compute_tax(sEnv, b, "uluna")

----------------------------------------------------------------------------
(* The validated output asset, checked under SpecValidate *)

\* C21: whenever assert_operations accepts a chain, the one key left in
\* ask_asset_map, and the one asset left by the reduction, is the ask asset of
\* the chain's last hop, the asset execute_swap_operations takes as its target;
\* this holds for chains whose hops are not back-to-back as well.
C21_AcceptedOutputIsLastAsk ==
    (Validated /\ vRes = OK) =>
        /\ vOps # <<>>
        /\ LET target == get_target_asset_info(vOps[Len(vOps)])
           IN  /\ DOMAIN ask_asset_map(vOps) = {to_string(target)}
               /\ Reduction(vOps, 1, {}) = {target}

C21_Witness ==
    /\ Validated
    /\ vRes = OK
    /\ Len(vOps) = 3
    /\ ~PairwiseChained(vOps)
    /\ get_target_asset_info(vOps[3]) = NativeToken("uluna")
    /\ DOMAIN ask_asset_map(vOps) = {"uluna"}

====
